---------------------------- MODULE Spec2Model ----------------------------
(***************************************************************************)
(* A model of sharon (src/sharon.go): a namespaced hashmap and a           *)
(* namespaced sorted set laid out in one flat, ordered, byte-keyed store.  *)
(*                                                                         *)
(* Byte strings are sequences of 0..255.  A uint64 is a tuple of four      *)
(* 16-bit limbs, most significant first, so that 64-bit arithmetic keeps   *)
(* its width (every operation is computed mod 2^64 as Go computes it).  An *)
(* int64 is its two's-complement bit pattern in the same form.  A Go       *)
(* string is its bytes (StringToBytesNoCopy is a reinterpreting cast).     *)
(* The store is the leveldb handle embedded in DB: a finite map from keys  *)
(* to values, iterated in bytes.Compare order; it never fails.             *)
(***************************************************************************)
EXTENDS Integers, Sequences, FiniteSets, TLC

VARIABLES
    store,   \* the contents of the embedded leveldb.DB: key -> value
    last,    \* the most recent call: its arguments and what it returned
    hlast,   \* history: for each hashmap (name, key), its most recent mutation
    zlast,   \* history: for each zset (name, key), its most recent successful mutation
    nincr,   \* how many Hincr/Zincr calls have run (caps the counters)
    procs    \* the calls in progress of concurrent callers: position and locals

vars == <<store, last, hlast, zlast, nincr, procs>>

(***************************************************************************)
(* Bounds of the model.                                                    *)
(***************************************************************************)
MaxIncr == 2      \* Hincr/Zincr calls per behaviour
MaxPairs == 2     \* pairs in one Hmset/Zmset call (odd lengths below 2*MaxPairs too)
MaxLimit == 2     \* scan limits range over 0..MaxLimit

(***************************************************************************)
(* Program constants.                                                      *)
(***************************************************************************)
replyOK == "ok"
replyNotFound == "leveldb: not found"
replyError == "error"
scoreByteLen == 8
scoreMin == <<0, 0, 0, 0>>
scoreMax == <<65535, 65535, 65535, 65535>>

hashPrefix == <<30>>
zetKeyPrefix == <<31>>
zetScorePrefix == <<29>>
splitChar == <<28>>

errOverflow == "overflow number"
errKvsLen == "kvs len must is an even number"

(***************************************************************************)
(* 64-bit arithmetic on limbs.                                             *)
(***************************************************************************)
\* a + b + cin on 64 bits: the wrapped sum and the carry out.
U64AddC(a, b, cin) ==
    LET s4 == a[4] + b[4] + cin
        s3 == a[3] + b[3] + (s4 \div 65536)
        s2 == a[2] + b[2] + (s3 \div 65536)
        s1 == a[1] + b[1] + (s2 \div 65536)
    IN  [sum |-> <<s1 % 65536, s2 % 65536, s3 % 65536, s4 % 65536>>,
         carry |-> s1 \div 65536]

U64Not(a) == <<65535 - a[1], 65535 - a[2], 65535 - a[3], 65535 - a[4]>>

\* Go's uint64 "+" and "-": both wrap.
U64Add(a, b) == U64AddC(a, b, 0).sum
U64Sub(a, b) == U64AddC(a, U64Not(b), 1).sum

\* Go's uint64 "<".
U64Less(a, b) ==
    \/ a[1] < b[1]
    \/ a[1] = b[1] /\ a[2] < b[2]
    \/ a[1] = b[1] /\ a[2] = b[2] /\ a[3] < b[3]
    \/ a[1] = b[1] /\ a[2] = b[2] /\ a[3] = b[3] /\ a[4] < b[4]

\* int64 step > 0, -step (wraps at the minimum) and the uint64(...) cast.
Int64Positive(step) == step[1] < 32768 /\ step # <<0, 0, 0, 0>>
Int64Neg(step) == U64Sub(<<0, 0, 0, 0>>, step)

(***************************************************************************)
(* Byte utilities.                                                         *)
(***************************************************************************)
\* Uint64ToBytes: 8 bytes, big endian.
Uint64ToBytes(v) ==
    <<v[1] \div 256, v[1] % 256, v[2] \div 256, v[2] % 256,
      v[3] \div 256, v[3] % 256, v[4] \div 256, v[4] % 256>>

\* BytesToUint64: 0 for a buffer shorter than 8 bytes, else its first 8 bytes.
BytesToUint64(v) ==
    IF Len(v) < scoreByteLen THEN <<0, 0, 0, 0>>
    ELSE <<v[1] * 256 + v[2], v[3] * 256 + v[4],
           v[5] * 256 + v[6], v[7] * 256 + v[8]>>

RECURSIVE Bconcat(_)
\* Bconcat: the fragments one after another.
Bconcat(slices) ==
    IF Len(slices) = 0 THEN <<>>
    ELSE Head(slices) \o Bconcat(Tail(slices))

RECURSIVE BytesCompareFrom(_, _, _)
\* bytes.Compare of a[i..] and b[i..], the bytes before i being equal.
BytesCompareFrom(a, b, i) ==
    IF i > Len(a) THEN (IF i > Len(b) THEN 0 ELSE -1)
    ELSE IF i > Len(b) THEN 1
    ELSE IF a[i] < b[i] THEN -1
    ELSE IF a[i] > b[i] THEN 1
    ELSE BytesCompareFrom(a, b, i + 1)

\* bytes.Compare: -1, 0 or 1, lexicographic on unsigned bytes.
BytesCompare(a, b) == BytesCompareFrom(a, b, 1)

\* bytes.Equal (a nil slice equals an empty one).
BytesEqual(a, b) == BytesCompare(a, b) = 0

RECURSIVE PrefixLimit(_)
\* util.BytesPrefix's Limit: the prefix cut after its last byte below 0xff,
\* that byte raised by one; none when every byte is 0xff.
PrefixLimit(prefix) ==
    IF Len(prefix) = 0 THEN [some |-> FALSE, key |-> <<>>]
    ELSE IF prefix[Len(prefix)] < 255
         THEN [some |-> TRUE,
               key |-> SubSeq(prefix, 1, Len(prefix) - 1) \o <<prefix[Len(prefix)] + 1>>]
         ELSE PrefixLimit(SubSeq(prefix, 1, Len(prefix) - 1))

\* util.BytesPrefix: the range [prefix, limit).
BytesPrefix(prefix) ==
    [Start |-> prefix, Limit |-> PrefixLimit(prefix).key, hasLimit |-> PrefixLimit(prefix).some]

(***************************************************************************)
(* The store: leveldb's Get/Put/Delete, batches and iterators.             *)
(***************************************************************************)
EmptyStore == [k \in {} |-> <<>>]

Has(s, k) == k \in DOMAIN s

\* db.Get: the value, or the error leveldb.ErrNotFound.
Get(s, k) ==
    IF k \in DOMAIN s THEN [val |-> s[k], err |-> ""]
    ELSE [val |-> <<>>, err |-> replyNotFound]

Put(s, k, v) == [x \in (DOMAIN s) \cup {k} |-> IF x = k THEN v ELSE s[x]]

Delete(s, k) == [x \in (DOMAIN s) \ {k} |-> s[x]]

BatchPut(k, v) == [put |-> TRUE, key |-> k, val |-> v]
BatchDelete(k) == [put |-> FALSE, key |-> k, val |-> <<>>]

RECURSIVE Write(_, _)
\* db.Write: the batch's records applied in the order they were added.
Write(s, batch) ==
    IF Len(batch) = 0 THEN s
    ELSE LET r == Head(batch)
         IN  Write(IF r.put THEN Put(s, r.key, r.val) ELSE Delete(s, r.key), Tail(batch))

\* The keys an iterator over the range visits.
InRange(s, range) ==
    {k \in DOMAIN s :
        /\ BytesCompare(range.Start, k) <= 0
        /\ range.hasLimit => BytesCompare(k, range.Limit) < 0}

RECURSIVE InsertKey(_, _)
\* A key put at its place in an ascending sequence of keys.
InsertKey(q, x) ==
    IF Len(q) = 0 THEN <<x>>
    ELSE IF BytesCompare(x, Head(q)) < 0 THEN <<x>> \o q
    ELSE <<Head(q)>> \o InsertKey(Tail(q), x)

RECURSIVE Ascending(_)
\* A set of keys in iteration order (iter.First, iter.Next): ascending by
\* bytes.Compare, leveldb's default comparer.
Ascending(S) ==
    IF S = {} THEN <<>>
    ELSE LET x == CHOOSE k \in S : TRUE
         IN  InsertKey(Ascending(S \ {x}), x)

\* A sequence back to front (iter.Last, iter.Prev).
Reverse(q) == [i \in 1..Len(q) |-> q[Len(q) + 1 - i]]


(***************************************************************************)
(* Scans: the loop shared by Hscan, Hprefix, Hrscan, Zscan and Zrscan.     *)
(***************************************************************************)
RECURSIVE ScanLoop(_, _, _, _, _, _)
\* The keys a scan loop collects from the iterator's keys ks (in visiting
\* order): a key is taken when bytes.Compare(realKey, key) = want (want = 2:
\* every key is taken), and the loop breaks when the count n reaches limit.
ScanLoop(ks, realKey, want, limit, n, acc) ==
    IF Len(ks) = 0 THEN acc
    ELSE IF want = 2 \/ BytesCompare(realKey, Head(ks)) = want
         THEN IF n + 1 = limit
              THEN Append(acc, Head(ks))
              ELSE ScanLoop(Tail(ks), realKey, want, limit, n + 1, Append(acc, Head(ks)))
         ELSE ScanLoop(Tail(ks), realKey, want, limit, n, acc)

\* What a call that panics gives instead of a result: Go's run-time error for
\* b[from:] with from beyond len(b).
panic == "panic: runtime error: slice bounds out of range"

\* Go's b[from:] and b[from:to].
SliceFrom(b, from) == IF from > Len(b) THEN panic ELSE SubSeq(b, from + 1, Len(b))
Slice(b, from, to) == SubSeq(b, from + 1, to)

RECURSIVE HashData(_, _, _)
\* r.Data of a hashmap scan: key[keyPrefixLen:], value, for each key taken.
HashData(s, ks, keyPrefixLen) ==
    IF Len(ks) = 0 THEN <<>>
    ELSE <<SliceFrom(Head(ks), keyPrefixLen), s[Head(ks)]>> \o HashData(s, Tail(ks), keyPrefixLen)

RECURSIVE ZetPairs(_, _)
\* key[keyBeginIndex:], key[scoreBeginIndex:scoreEndIndex] for each key taken.
ZetPairs(ks, scoreBeginIndex) ==
    IF Len(ks) = 0 THEN <<>>
    ELSE <<SliceFrom(Head(ks), scoreBeginIndex + scoreByteLen + 1),
           Slice(Head(ks), scoreBeginIndex, scoreBeginIndex + scoreByteLen)>>
         \o ZetPairs(Tail(ks), scoreBeginIndex)

\* A key taken is shorter than keyBeginIndex: iter.Key()[keyBeginIndex:], the
\* first slice of the append, panics.
ZetPanics(ks, scoreBeginIndex) ==
    \E i \in 1..Len(ks) : scoreBeginIndex + scoreByteLen + 1 > Len(ks[i])

\* r.Data of a zset scan, or the panic of its slices.
ZetData(ks, scoreBeginIndex) ==
    IF ZetPanics(ks, scoreBeginIndex) THEN panic ELSE ZetPairs(ks, scoreBeginIndex)

\* A zset scan that panics returns no Reply: State holds the panic.
ZetReply(ks, scoreBeginIndex) ==
    IF ZetPanics(ks, scoreBeginIndex) THEN [State |-> panic, Data |-> <<>>]
    ELSE [State |-> IF Len(ks) > 0 THEN replyOK ELSE replyError,
          Data |-> ZetData(ks, scoreBeginIndex)]

\* The Reply a scan returns: "ok" when it took a key, else the initial "error".
ScanReply(data) ==
    [State |-> IF Len(data) > 0 THEN replyOK ELSE replyError, Data |-> data]

(***************************************************************************)
(* Hashmap engine.                                                         *)
(***************************************************************************)
\* The bucket prefix as it would be without the separator after the name.
HashKeyPrefixNoSeparator(name) == Bconcat(<<hashPrefix, name>>)

HashKeyPrefix(name) == Bconcat(<<hashPrefix, name, splitChar>>)
HashKey(name, key) == Bconcat(<<hashPrefix, name, splitChar, key>>)

\* DB.Hset
HsetStore(s, name, key, val) == Put(s, HashKey(name, key), val)

\* DB.Hget
Hget(s, name, key) ==
    LET g == Get(s, HashKey(name, key))
    IN  IF g.err # "" THEN [State |-> g.err, Data |-> <<>>]
        ELSE [State |-> replyOK, Data |-> <<g.val>>]

RECURSIVE HmsetBatchStopsEarly(_, _, _)
\* Hmset's loop as it would be with the bound len(kvs)-2: the last pair is lost.
HmsetBatchStopsEarly(keyPrefix, kvs, i) ==
    IF i < Len(kvs) - 2
    THEN <<BatchPut(Bconcat(<<keyPrefix, kvs[i + 1]>>), kvs[i + 2])>>
         \o HmsetBatchStopsEarly(keyPrefix, kvs, i + 2)
    ELSE <<>>

RECURSIVE HmsetBatch(_, _, _)
\* DB.Hmset's loop: for i := 0; i < len(kvs)-1; i += 2 (i is 0-based).
HmsetBatch(keyPrefix, kvs, i) ==
    IF i < Len(kvs) - 1
    THEN <<BatchPut(Bconcat(<<keyPrefix, kvs[i + 1]>>), kvs[i + 2])>>
         \o HmsetBatch(keyPrefix, kvs, i + 2)
    ELSE <<>>

\* DB.Hmset
Hmset(s, name, kvs) ==
    IF Len(kvs) = 0 \/ Len(kvs) % 2 # 0
    THEN [store |-> s, err |-> errKvsLen]
    ELSE [store |-> Write(s, HmsetBatch(HashKeyPrefix(name), kvs, 0)), err |-> ""]

\* DB.HgetInt
HgetInt(s, name, key) ==
    LET g == Get(s, HashKey(name, key))
    IN  IF g.err # "" THEN <<0, 0, 0, 0>> ELSE BytesToUint64(g.val)

\* The increment as it would be without the underflow test: it wraps below 0.
IncrNumWraps(oldNum, step) ==
    IF Int64Positive(step)
    THEN IF U64Less(U64Sub(scoreMax, step), oldNum)
         THEN [num |-> <<0, 0, 0, 0>>, err |-> errOverflow]
         ELSE [num |-> U64Add(oldNum, step), err |-> ""]
    ELSE [num |-> U64Sub(oldNum, Int64Neg(step)), err |-> ""]

\* The arithmetic of DB.Hincr and DB.Zincr: the new number, or overflow.
IncrNum(oldNum, step) ==
    IF Int64Positive(step)
    THEN IF U64Less(U64Sub(scoreMax, step), oldNum)
         THEN [num |-> <<0, 0, 0, 0>>, err |-> errOverflow]
         ELSE [num |-> U64Add(oldNum, step), err |-> ""]
    ELSE IF U64Less(oldNum, Int64Neg(step))
         THEN [num |-> <<0, 0, 0, 0>>, err |-> errOverflow]
         ELSE [num |-> U64Sub(oldNum, Int64Neg(step)), err |-> ""]

\* DB.Hincr
Hincr(s, name, key, step) ==
    LET realKey == HashKey(name, key)
        g == Get(s, realKey)
        oldNum == IF g.err = "" THEN BytesToUint64(g.val) ELSE <<0, 0, 0, 0>>
        r == IncrNum(oldNum, step)
    IN  IF r.err # "" THEN [store |-> s, num |-> r.num, err |-> r.err]
        ELSE [store |-> Put(s, realKey, Uint64ToBytes(r.num)), num |-> r.num, err |-> ""]

\* DB.Hdel
HdelStore(s, name, key) == Delete(s, HashKey(name, key))

RECURSIVE DeleteBatch(_)
\* A batch deleting each key of a sequence, in order.
DeleteBatch(ks) ==
    IF Len(ks) = 0 THEN <<>> ELSE <<BatchDelete(Head(ks))>> \o DeleteBatch(Tail(ks))

RECURSIVE PrefixEach(_, _)
\* keyPrefix in front of each key of a sequence.
PrefixEach(keyPrefix, keys) ==
    IF Len(keys) = 0 THEN <<>>
    ELSE <<Bconcat(<<keyPrefix, Head(keys)>>)>> \o PrefixEach(keyPrefix, Tail(keys))

\* DB.Hmdel
HmdelStore(s, name, keys) == Write(s, DeleteBatch(PrefixEach(HashKeyPrefix(name), keys)))

\* DB.HdelBucket, run without interruption.
HdelBucketStore(s, name) ==
    Write(s, DeleteBatch(Ascending(InRange(s, BytesPrefix(HashKeyPrefix(name))))))

\* Hscan as it would be without the bytes.Compare test: the start key is returned.
HscanInclusive(s, name, keyStart, limit) ==
    LET keyPrefix == HashKeyPrefix(name)
        keyPrefixLen == Len(keyPrefix)
        bp == BytesPrefix(keyPrefix)
        realKey0 == Bconcat(<<keyPrefix, keyStart>>)
        sliceRange == IF Len(realKey0) > keyPrefixLen THEN [bp EXCEPT !.Start = realKey0] ELSE bp
        realKey == IF Len(realKey0) > keyPrefixLen THEN realKey0 ELSE bp.Start
        taken == ScanLoop(Ascending(InRange(s, sliceRange)), realKey, 2, limit, 0, <<>>)
    IN  ScanReply(HashData(s, taken, keyPrefixLen))

\* DB.Hscan
Hscan(s, name, keyStart, limit) ==
    LET keyPrefix == HashKeyPrefix(name)
        keyPrefixLen == Len(keyPrefix)
        bp == BytesPrefix(keyPrefix)
        realKey0 == Bconcat(<<keyPrefix, keyStart>>)
        sliceRange == IF Len(realKey0) > keyPrefixLen THEN [bp EXCEPT !.Start = realKey0] ELSE bp
        realKey == IF Len(realKey0) > keyPrefixLen THEN realKey0 ELSE bp.Start
        taken == ScanLoop(Ascending(InRange(s, sliceRange)), realKey, -1, limit, 0, <<>>)
    IN  ScanReply(HashData(s, taken, keyPrefixLen))

\* DB.Hprefix
Hprefix(s, name, prefix, limit) ==
    LET realKey0 == Bconcat(<<hashPrefix, name, splitChar, prefix>>)
        keyPrefixLen == Len(realKey0)
        bp == BytesPrefix(realKey0)
        sliceRange == IF Len(realKey0) > keyPrefixLen THEN [bp EXCEPT !.Start = realKey0] ELSE bp
        realKey == IF Len(realKey0) > keyPrefixLen THEN realKey0 ELSE bp.Start
        taken == ScanLoop(Ascending(InRange(s, sliceRange)), realKey, -1, limit, 0, <<>>)
    IN  ScanReply(HashData(s, taken, keyPrefixLen))

\* Hrscan as it would be if its range ended just after the start key: the
\* start key is returned.
HrscanInclusive(s, name, keyStart, limit) ==
    LET keyPrefix == HashKeyPrefix(name)
        keyPrefixLen == Len(keyPrefix)
        bp == BytesPrefix(keyPrefix)
        realKey0 == Bconcat(<<keyPrefix, keyStart>>)
        sliceRange == IF Len(realKey0) > keyPrefixLen
                      THEN [bp EXCEPT !.Limit = realKey0 \o <<0>>, !.hasLimit = TRUE] ELSE bp
        taken == ScanLoop(Reverse(Ascending(InRange(s, sliceRange))), realKey0, 2, limit, 0, <<>>)
    IN  ScanReply(HashData(s, taken, keyPrefixLen))

\* DB.Hrscan
Hrscan(s, name, keyStart, limit) ==
    LET keyPrefix == HashKeyPrefix(name)
        keyPrefixLen == Len(keyPrefix)
        bp == BytesPrefix(keyPrefix)
        realKey0 == Bconcat(<<keyPrefix, keyStart>>)
        sliceRange == IF Len(realKey0) > keyPrefixLen
                      THEN [bp EXCEPT !.Limit = realKey0, !.hasLimit = TRUE] ELSE bp
        taken == ScanLoop(Reverse(Ascending(InRange(s, sliceRange))), realKey0, 2, limit, 0, <<>>)
    IN  ScanReply(HashData(s, taken, keyPrefixLen))

(***************************************************************************)
(* Sorted-set engine.  The direct index maps zetScorePrefix name sep key   *)
(* to the score; the order index holds zetKeyPrefix name sep score sep key *)
(* with an empty value.                                                    *)
(***************************************************************************)
ZetScoreKeyPrefix(name) == Bconcat(<<zetScorePrefix, name, splitChar>>)
ZetKeyKeyPrefix(name) == Bconcat(<<zetKeyPrefix, name, splitChar>>)
ZetScoreKey(name, key) == Bconcat(<<zetScorePrefix, name, splitChar, key>>)
ZetKeyKey(name, score, key) == Bconcat(<<zetKeyPrefix, name, splitChar, score, splitChar, key>>)

\* DB.Zget
Zget(s, name, key) ==
    LET g == Get(s, ZetScoreKey(name, key))
    IN  IF g.err # "" THEN <<0, 0, 0, 0>> ELSE BytesToUint64(g.val)

\* DB.ZhasKey
ZhasKey(s, name, key) == Has(s, ZetScoreKey(name, key))

\* The batch as it would be if the old order-index entry were not deleted.
ZetBatchKeepsOld(name, key, oldScore, score) ==
    <<BatchPut(ZetScoreKey(name, key), score),
      BatchPut(ZetKeyKey(name, score, key), <<>>)>>

\* The three records DB.Zset, DB.Zincr and DB.Zmset add to their batch.
ZetBatch(name, key, oldScore, score) ==
    <<BatchPut(ZetScoreKey(name, key), score),
      BatchPut(ZetKeyKey(name, score, key), <<>>),
      BatchDelete(ZetKeyKey(name, oldScore, key))>>

\* DB.Zset
ZsetStore(s, name, key, val) ==
    LET score == Uint64ToBytes(val)
        oldScore == Get(s, ZetScoreKey(name, key)).val
    IN  IF ~BytesEqual(oldScore, score)
        THEN Write(s, ZetBatch(name, key, oldScore, score))
        ELSE s

\* DB.Zincr
Zincr(s, name, key, step) ==
    LET score == Zget(s, name, key)
        oldScoreB == Uint64ToBytes(score)
        r == IncrNum(score, step)
    IN  IF r.err # "" THEN [store |-> s, num |-> <<0, 0, 0, 0>>, err |-> r.err]
        ELSE [store |-> Write(s, ZetBatch(name, key, oldScoreB, Uint64ToBytes(r.num))),
              num |-> r.num, err |-> ""]

\* Zdel as it would be if its batch left the direct-index entry in place.
ZdelKeepsScore(s, name, key) ==
    LET keyScore == ZetScoreKey(name, key)
        g == Get(s, keyScore)
    IN  IF g.err # "" THEN [store |-> s, err |-> g.err]
        ELSE [store |-> Write(s, <<BatchDelete(ZetKeyKey(name, g.val, key))>>), err |-> ""]

\* Zdel as it would be if its batch left the order-index entry in place.
ZdelKeepsOrderEntry(s, name, key) ==
    LET keyScore == ZetScoreKey(name, key)
        g == Get(s, keyScore)
    IN  IF g.err # "" THEN [store |-> s, err |-> g.err]
        ELSE [store |-> Write(s, <<BatchDelete(keyScore)>>), err |-> ""]

\* DB.Zdel
Zdel(s, name, key) ==
    LET keyScore == ZetScoreKey(name, key)
        g == Get(s, keyScore)
    IN  IF g.err # "" THEN [store |-> s, err |-> g.err]
        ELSE [store |-> Write(s, <<BatchDelete(keyScore),
                                   BatchDelete(ZetKeyKey(name, g.val, key))>>),
              err |-> ""]

RECURSIVE ZmdelBatch(_, _, _)
\* The batch of DB.Zmdel: for each key that has a score in the store, the
\* deletes of its direct-index entry and of its order-index entry.
ZmdelBatch(s, name, keys) ==
    IF Len(keys) = 0 THEN <<>>
    ELSE LET keyScore == ZetScoreKey(name, Head(keys))
             g == Get(s, keyScore)
         IN  (IF g.err # "" THEN <<>>
              ELSE <<BatchDelete(keyScore), BatchDelete(ZetKeyKey(name, g.val, Head(keys)))>>)
             \o ZmdelBatch(s, name, Tail(keys))

\* DB.Zmdel
ZmdelStore(s, name, keys) == Write(s, ZmdelBatch(s, name, keys))

RECURSIVE ZdelEachBatch(_, _, _)
\* The deletes of Zdel for each direct-index key of a sequence.
ZdelEachBatch(s, name, ks) ==
    IF Len(ks) = 0 THEN <<>>
    ELSE LET key == SliceFrom(Head(ks), Len(ZetScoreKeyPrefix(name)))
         IN  <<BatchDelete(Head(ks)), BatchDelete(ZetKeyKey(name, s[Head(ks)], key))>>
             \o ZdelEachBatch(s, name, Tail(ks))

\* ZdelBucket as it would be if it deleted, member by member, the direct-index
\* entry and the order-index entry at the member's score.
ZdelBucketByMember(s, name) ==
    ZdelEachBatch(s, name, Ascending(InRange(s, BytesPrefix(ZetScoreKeyPrefix(name)))))

\* The batch of DB.ZdelBucket: every key under the direct-index prefix, then
\* every key under the order-index prefix.
ZdelBucketBatch(s, name) ==
    DeleteBatch(Ascending(InRange(s, BytesPrefix(ZetScoreKeyPrefix(name)))))
    \o DeleteBatch(Ascending(InRange(s, BytesPrefix(ZetKeyKeyPrefix(name)))))

\* DB.ZdelBucket, run without interruption.
ZdelBucketStore(s, name) == Write(s, ZdelBucketBatch(s, name))

RECURSIVE ZmsetBatch(_, _, _, _)
\* DB.Zmset's loop (i is 0-based): every old score is read from the store as
\* it was when the call began, since the batch is written after the loop.
ZmsetBatch(s, name, kvs, i) ==
    IF i < Len(kvs) - 1
    THEN LET key == kvs[i + 1]
             score == kvs[i + 2]
             oldScore == Get(s, ZetScoreKey(name, key)).val
         IN  (IF ~BytesEqual(oldScore, score)
              THEN ZetBatch(name, key, oldScore, score) ELSE <<>>)
             \o ZmsetBatch(s, name, kvs, i + 2)
    ELSE <<>>

\* Zmset as it would be if it rejected only the empty list.
ZmsetAcceptsOdd(s, name, kvs) ==
    IF Len(kvs) = 0
    THEN [store |-> s, err |-> errKvsLen]
    ELSE [store |-> Write(s, ZmsetBatch(s, name, kvs, 0)), err |-> ""]

\* DB.Zmset
Zmset(s, name, kvs) ==
    IF Len(kvs) = 0 \/ Len(kvs) % 2 # 0
    THEN [store |-> s, err |-> errKvsLen]
    ELSE [store |-> Write(s, ZmsetBatch(s, name, kvs, 0)), err |-> ""]

\* Zscan as it would be if it resumed at the cursor instead of after it.
ZscanFromCursor(s, name, keyStart, scoreStart0, limit) ==
    LET scoreStart == IF Len(scoreStart0) = 0 THEN Uint64ToBytes(scoreMin) ELSE scoreStart0
        keyPrefix == ZetKeyKeyPrefix(name)
        scoreBeginIndex == Len(keyPrefix)
        realKey == IF Len(keyStart) = 0
                   THEN BytesPrefix(Bconcat(<<keyPrefix, scoreStart, splitChar>>)).Limit
                   ELSE Bconcat(<<keyPrefix, scoreStart, splitChar, keyStart>>)
        sliceRange == [BytesPrefix(keyPrefix) EXCEPT !.Start = realKey]
        taken == ScanLoop(Ascending(InRange(s, sliceRange)), realKey, 2, limit, 0, <<>>)
    IN  ZetReply(taken, scoreBeginIndex)

\* DB.Zscan
Zscan(s, name, keyStart, scoreStart0, limit) ==
    LET scoreStart == IF Len(scoreStart0) = 0 THEN Uint64ToBytes(scoreMin) ELSE scoreStart0
        keyPrefix == ZetKeyKeyPrefix(name)
        scoreBeginIndex == Len(keyPrefix)
        realKey == IF Len(keyStart) = 0
                   THEN BytesPrefix(Bconcat(<<keyPrefix, scoreStart, splitChar>>)).Limit
                   ELSE Bconcat(<<keyPrefix, scoreStart, splitChar, keyStart>>)
        sliceRange == [BytesPrefix(keyPrefix) EXCEPT !.Start = realKey]
        taken == ScanLoop(Ascending(InRange(s, sliceRange)), realKey, -1, limit, 0, <<>>)
    IN  ZetReply(taken, scoreBeginIndex)

\* DB.Zrscan
Zrscan(s, name, keyStart, scoreStart0, limit) ==
    LET scoreStart == IF Len(scoreStart0) = 0 THEN Uint64ToBytes(scoreMax) ELSE scoreStart0
        keyPrefix == ZetKeyKeyPrefix(name)
        scoreBeginIndex == Len(keyPrefix)
        realKey == IF Len(keyStart) = 0
                   THEN BytesPrefix(Bconcat(<<keyPrefix, scoreStart, splitChar>>)).Start
                   ELSE Bconcat(<<keyPrefix, scoreStart, splitChar, keyStart>>)
        sliceRange == [BytesPrefix(keyPrefix) EXCEPT !.Limit = realKey, !.hasLimit = TRUE]
        taken == ScanLoop(Reverse(Ascending(InRange(s, sliceRange))), realKey, 1, limit, 0, <<>>)
    IN  ZetReply(taken, scoreBeginIndex)

(***************************************************************************)
(* The state machine: a client calling the DB's methods one at a time.     *)
(* last records the call and its results; hlast and zlast are history      *)
(* variables that remember, per (name, key), what the most recent          *)
(* mutation wrote (a removed key leaves them).                             *)
(***************************************************************************)
NoCall ==
    [op |-> "none", name |-> <<>>, key |-> <<>>, val |-> <<>>, kvs |-> <<>>,
     score |-> <<0, 0, 0, 0>>, step |-> <<0, 0, 0, 0>>, scoreStart |-> <<>>, limit |-> 0,
     State |-> "", Data |-> <<>>, num |-> <<0, 0, 0, 0>>, err |-> ""]

\* The concurrent callers, and a caller that is in no call.
Procs == {1, 2}
Idle ==
    [pc |-> "idle", op |-> "none", name |-> <<>>, key |-> <<>>, read |-> <<>>,
     batch |-> <<>>, step |-> <<0, 0, 0, 0>>, num |-> <<0, 0, 0, 0>>, err |-> "", after |-> {},
     limit |-> 0]

Init ==
    /\ store = EmptyStore
    /\ last = NoCall
    /\ hlast = EmptyStore
    /\ zlast = EmptyStore
    /\ nincr = 0
    /\ procs = [p \in Procs |-> Idle]

\* History: (name, key) was last written with v / last removed.
Wrote(h, name, key, v) ==
    [x \in (DOMAIN h) \cup {<<name, key>>} |-> IF x = <<name, key>> THEN v ELSE h[x]]
Removed(h, name, key) == [x \in (DOMAIN h) \ {<<name, key>>} |-> h[x]]

RECURSIVE WroteEach(_, _, _, _)
WroteEach(h, name, kvs, i) ==
    IF i < Len(kvs) - 1
    THEN WroteEach(Wrote(h, name, kvs[i + 1], [kind |-> "set", val |-> kvs[i + 2]]), name, kvs, i + 2)
    ELSE h

RECURSIVE RemovedEach(_, _, _)
RemovedEach(h, name, keys) ==
    IF Len(keys) = 0 THEN h
    ELSE RemovedEach(Removed(h, name, Head(keys)), name, Tail(keys))

RemovedBucket(h, name) == [x \in {y \in DOMAIN h : y[1] # name} |-> h[x]]

----------------------------------------------------------------------------
\* Hashmap calls.

CallHset(name, key, val) ==
    /\ store' = HsetStore(store, name, key, val)
    /\ last' = [NoCall EXCEPT !.op = "Hset", !.name = name, !.key = key, !.val = val]
    /\ hlast' = Wrote(hlast, name, key, [kind |-> "set", val |-> val])
    /\ UNCHANGED <<zlast, nincr, procs>>

CallHget(name, key) ==
    LET r == Hget(store, name, key)
    IN  /\ last' = [NoCall EXCEPT !.op = "Hget", !.name = name, !.key = key,
                                  !.State = r.State, !.Data = r.Data]
        /\ UNCHANGED <<store, hlast, zlast, nincr, procs>>

CallHmset(name, kvs) ==
    LET r == Hmset(store, name, kvs)
    IN  /\ store' = r.store
        /\ last' = [NoCall EXCEPT !.op = "Hmset", !.name = name, !.kvs = kvs, !.err = r.err]
        /\ hlast' = IF r.err = "" THEN WroteEach(hlast, name, kvs, 0) ELSE hlast
        /\ UNCHANGED <<zlast, nincr, procs>>

CallHincr(name, key, step) ==
    LET r == Hincr(store, name, key, step)
    IN  /\ nincr < MaxIncr
        /\ nincr' = nincr + 1
        /\ store' = r.store
        /\ last' = [NoCall EXCEPT !.op = "Hincr", !.name = name, !.key = key, !.step = step,
                                  !.num = r.num, !.err = r.err]
        /\ hlast' = IF r.err = ""
                    THEN Wrote(hlast, name, key, [kind |-> "incr", val |-> Uint64ToBytes(r.num)])
                    ELSE hlast
        /\ UNCHANGED <<zlast, procs>>

CallHdel(name, key) ==
    /\ store' = HdelStore(store, name, key)
    /\ last' = [NoCall EXCEPT !.op = "Hdel", !.name = name, !.key = key]
    /\ hlast' = Removed(hlast, name, key)
    /\ UNCHANGED <<zlast, nincr, procs>>

CallHmdel(name, keys) ==
    /\ store' = HmdelStore(store, name, keys)
    /\ last' = [NoCall EXCEPT !.op = "Hmdel", !.name = name, !.kvs = keys]
    /\ hlast' = RemovedEach(hlast, name, keys)
    /\ UNCHANGED <<zlast, nincr, procs>>

CallHdelBucket(name) ==
    /\ store' = HdelBucketStore(store, name)
    /\ last' = [NoCall EXCEPT !.op = "HdelBucket", !.name = name]
    /\ hlast' = RemovedBucket(hlast, name)
    /\ UNCHANGED <<zlast, nincr, procs>>

CallHscan(name, keyStart, limit) ==
    LET r == Hscan(store, name, keyStart, limit)
    IN  /\ last' = [NoCall EXCEPT !.op = "Hscan", !.name = name, !.key = keyStart, !.limit = limit,
                                  !.State = r.State, !.Data = r.Data]
        /\ UNCHANGED <<store, hlast, zlast, nincr, procs>>

CallHprefix(name, prefix, limit) ==
    LET r == Hprefix(store, name, prefix, limit)
    IN  /\ last' = [NoCall EXCEPT !.op = "Hprefix", !.name = name, !.key = prefix, !.limit = limit,
                                  !.State = r.State, !.Data = r.Data]
        /\ UNCHANGED <<store, hlast, zlast, nincr, procs>>

CallHrscan(name, keyStart, limit) ==
    LET r == Hrscan(store, name, keyStart, limit)
    IN  /\ last' = [NoCall EXCEPT !.op = "Hrscan", !.name = name, !.key = keyStart, !.limit = limit,
                                  !.State = r.State, !.Data = r.Data]
        /\ UNCHANGED <<store, hlast, zlast, nincr, procs>>

----------------------------------------------------------------------------
\* Sorted-set calls.

CallZset(name, key, val) ==
    /\ store' = ZsetStore(store, name, key, val)
    /\ last' = [NoCall EXCEPT !.op = "Zset", !.name = name, !.key = key, !.score = val]
    /\ zlast' = Wrote(zlast, name, key, val)
    /\ UNCHANGED <<hlast, nincr, procs>>

CallZget(name, key) ==
    /\ last' = [NoCall EXCEPT !.op = "Zget", !.name = name, !.key = key,
                              !.num = Zget(store, name, key)]
    /\ UNCHANGED <<store, hlast, zlast, nincr, procs>>

CallZincr(name, key, step) ==
    LET r == Zincr(store, name, key, step)
    IN  /\ nincr < MaxIncr
        /\ nincr' = nincr + 1
        /\ store' = r.store
        /\ last' = [NoCall EXCEPT !.op = "Zincr", !.name = name, !.key = key, !.step = step,
                                  !.num = r.num, !.err = r.err]
        /\ zlast' = IF r.err = "" THEN Wrote(zlast, name, key, r.num) ELSE zlast
        /\ UNCHANGED <<hlast, procs>>

CallZdel(name, key) ==
    LET r == Zdel(store, name, key)
    IN  /\ store' = r.store
        /\ last' = [NoCall EXCEPT !.op = "Zdel", !.name = name, !.key = key, !.err = r.err]
        /\ zlast' = IF r.err = "" THEN Removed(zlast, name, key) ELSE zlast
        /\ UNCHANGED <<hlast, nincr, procs>>

\* last.Data keeps the keys of the batch.
CallZdelBucket(name) ==
    LET batch == ZdelBucketBatch(store, name)
    IN  /\ store' = ZdelBucketStore(store, name)
        /\ last' = [NoCall EXCEPT !.op = "ZdelBucket", !.name = name,
                                  !.Data = [i \in 1..Len(batch) |-> batch[i].key]]
        /\ zlast' = RemovedBucket(zlast, name)
        /\ UNCHANGED <<hlast, nincr, procs>>

CallZmdel(name, keys) ==
    /\ store' = ZmdelStore(store, name, keys)
    /\ last' = [NoCall EXCEPT !.op = "Zmdel", !.name = name, !.kvs = keys]
    /\ zlast' = RemovedEach(zlast, name, keys)
    /\ UNCHANGED <<hlast, nincr, procs>>

CallZmset(name, kvs) ==
    LET r == Zmset(store, name, kvs)
    IN  /\ store' = r.store
        /\ last' = [NoCall EXCEPT !.op = "Zmset", !.name = name, !.kvs = kvs, !.err = r.err]
        /\ UNCHANGED <<hlast, zlast, nincr, procs>>

CallZscan(name, keyStart, scoreStart, limit) ==
    LET r == Zscan(store, name, keyStart, scoreStart, limit)
    IN  /\ last' = [NoCall EXCEPT !.op = "Zscan", !.name = name, !.key = keyStart,
                                  !.scoreStart = scoreStart, !.limit = limit,
                                  !.State = r.State, !.Data = r.Data]
        /\ UNCHANGED <<store, hlast, zlast, nincr, procs>>

CallZrscan(name, keyStart, scoreStart, limit) ==
    LET r == Zrscan(store, name, keyStart, scoreStart, limit)
    IN  /\ last' = [NoCall EXCEPT !.op = "Zrscan", !.name = name, !.key = keyStart,
                                  !.scoreStart = scoreStart, !.limit = limit,
                                  !.State = r.State, !.Data = r.Data]
        /\ UNCHANGED <<store, hlast, zlast, nincr, procs>>

----------------------------------------------------------------------------
\* Concurrent callers.  A call that reads the store and then writes it takes
\* two steps, the read (with everything computed from it) and the write;
\* db.Get, db.Put, db.Write and db.NewIterator are each atomic in leveldb, and
\* the DB adds no lock of its own.  read is what the call read, batch what it
\* is about to write, after the callers whose write came before its read.

\* The callers that have written.
Written == {q \in Procs : procs[q].pc = "done" /\ Len(procs[q].batch) > 0}

\* DB.Zset up to its db.Write.
BeginZset(p, name, key, val) ==
    LET score == Uint64ToBytes(val)
        oldScore == Get(store, ZetScoreKey(name, key)).val
        writes == ~BytesEqual(oldScore, score)
    IN  /\ procs[p].pc = "idle"
        /\ procs' = [procs EXCEPT ![p] =
              [Idle EXCEPT !.pc = IF writes THEN "write" ELSE "done",
                           !.op = "Zset", !.name = name, !.key = key, !.read = oldScore,
                           !.batch = IF writes THEN ZetBatch(name, key, oldScore, score) ELSE <<>>,
                           !.num = val, !.after = Written]]
        /\ UNCHANGED <<store, last, hlast, zlast, nincr>>

\* DB.Zincr up to its db.Write.
BeginZincr(p, name, key, step) ==
    LET score == Zget(store, name, key)
        oldScoreB == Uint64ToBytes(score)
        r == IncrNum(score, step)
    IN  /\ procs[p].pc = "idle"
        /\ procs' = [procs EXCEPT ![p] =
              [Idle EXCEPT !.pc = IF r.err = "" THEN "write" ELSE "done",
                           !.op = "Zincr", !.name = name, !.key = key, !.step = step,
                           !.read = oldScoreB,
                           !.batch = IF r.err = ""
                                     THEN ZetBatch(name, key, oldScoreB, Uint64ToBytes(r.num))
                                     ELSE <<>>,
                           !.num = r.num, !.err = r.err, !.after = Written]]
        /\ UNCHANGED <<store, last, hlast, zlast, nincr>>

\* DB.Hincr up to its db.Put.
BeginHincr(p, name, key, step) ==
    LET realKey == HashKey(name, key)
        g == Get(store, realKey)
        oldNum == IF g.err = "" THEN BytesToUint64(g.val) ELSE <<0, 0, 0, 0>>
        r == IncrNum(oldNum, step)
    IN  /\ procs[p].pc = "idle"
        /\ procs' = [procs EXCEPT ![p] =
              [Idle EXCEPT !.pc = IF r.err = "" THEN "write" ELSE "done",
                           !.op = "Hincr", !.name = name, !.key = key, !.step = step,
                           !.read = g.val,
                           !.batch = IF r.err = ""
                                     THEN <<BatchPut(realKey, Uint64ToBytes(r.num))>>
                                     ELSE <<>>,
                           !.num = r.num, !.err = r.err, !.after = Written]]
        /\ UNCHANGED <<store, last, hlast, zlast, nincr>>

\* DB.HdelBucket up to its db.Write: the iterator sees the store as it was at
\* db.NewIterator; read keeps what it saw.
BeginHdelBucket(p, name) ==
    LET ks == Ascending(InRange(store, BytesPrefix(HashKeyPrefix(name))))
    IN  /\ procs[p].pc = "idle"
        /\ procs' = [procs EXCEPT ![p] =
              [Idle EXCEPT !.pc = "write", !.op = "HdelBucket", !.name = name,
                           !.read = [k \in InRange(store, BytesPrefix(HashKeyPrefix(name))) |-> store[k]],
                           !.batch = DeleteBatch(ks), !.after = Written]]
        /\ UNCHANGED <<store, last, hlast, zlast, nincr>>

\* The write as it would be if HdelBucket deleted the bucket's range as it is
\* when the batch is written, not as the iterator saw it.
CommitDeletesRange(p) ==
    /\ procs[p].pc = "write"
    /\ store' = IF procs[p].op = "HdelBucket" THEN HdelBucketStore(store, procs[p].name)
                ELSE Write(store, procs[p].batch)
    /\ procs' = [procs EXCEPT ![p].pc = "done"]
    /\ last' = [NoCall EXCEPT !.op = procs[p].op, !.name = procs[p].name, !.key = procs[p].key,
                              !.num = procs[p].num]
    /\ UNCHANGED <<hlast, zlast, nincr>>

\* The db.Write (or db.Put) that ends a call; last records the call that wrote.
CommitWrite(p) ==
    /\ procs[p].pc = "write"
    /\ store' = Write(store, procs[p].batch)
    /\ procs' = [procs EXCEPT ![p].pc = "done"]
    /\ last' = [NoCall EXCEPT !.op = procs[p].op, !.name = procs[p].name, !.key = procs[p].key,
                              !.num = procs[p].num]
    /\ UNCHANGED <<hlast, zlast, nincr>>

\* A caller paging through a bucket with Hscan: the first call starts from
\* the empty key.  read collects the members returned so far, key is the
\* start key of the next call.
BeginPaging(p, name, limit) ==
    /\ procs[p].pc = "idle"
    /\ procs' = [procs EXCEPT ![p] =
          [Idle EXCEPT !.pc = "page", !.op = "Hscan", !.name = name, !.limit = limit]]
    /\ UNCHANGED <<store, last, hlast, zlast, nincr>>

\* One Hscan call of the paging caller, from the last member of the previous
\* page; a call that returns no pair ends the paging.
NextPage(p) ==
    LET c == procs[p]
        r == Hscan(store, c.name, c.key, c.limit)
        n == Len(r.Data) \div 2
    IN  /\ c.pc = "page"
        /\ procs' = [procs EXCEPT ![p] =
              IF n = 0 THEN [c EXCEPT !.pc = "done"]
              ELSE [c EXCEPT !.read = c.read \o [i \in 1..n |-> r.Data[2 * i - 1]],
                             !.key = r.Data[2 * n - 1]]]
        /\ last' = [NoCall EXCEPT !.op = "Hscan", !.name = c.name, !.key = c.key, !.limit = c.limit,
                                  !.State = r.State, !.Data = r.Data]
        /\ UNCHANGED <<store, hlast, zlast, nincr>>

\* The caller's call has returned and it is free for another.
Return(p) ==
    /\ procs[p].pc = "done"
    /\ procs' = [procs EXCEPT ![p] = Idle]
    /\ UNCHANGED <<store, last, hlast, zlast, nincr>>

\* No caller is in a call.
AllIdle == \A p \in Procs : procs[p].pc = "idle"

(***************************************************************************)
(* Inputs.                                                                 *)
(***************************************************************************)
U16(n) == <<0, 0, 0, n>>
Zero64 == <<0, 0, 0, 0>>
MinusOne == <<65535, 65535, 65535, 65535>>      \* int64(-1)
MinusTwo == <<65535, 65535, 65535, 65534>>      \* int64(-2)
MaxInt64 == <<32767, 65535, 65535, 65535>>
MinInt64 == <<32768, 0, 0, 0>>
MaxMinusOne == <<65535, 65535, 65535, 65534>>   \* uint64 2^64-2

\* Every sequence over S of length at most n.
RECURSIVE SeqsUpTo(_, _)
SeqsUpTo(S, n) ==
    IF n = 0 THEN {<<>>}
    ELSE LET shorter == SeqsUpTo(S, n - 1)
         IN  shorter \cup {Append(q, x) : q \in {r \in shorter : Len(r) = n - 1}, x \in S}

(***************************************************************************)
(* SpecZ: Zset, Zincr, Zdel and Zget on the members of one sorted set.     *)
(***************************************************************************)
ZName == <<122>>
ZKeys == {<<109>>, <<>>}
ZScores == {Zero64, U16(5), scoreMax}
ZSteps == {Zero64, U16(1), MinusOne, MinInt64}

NextZ ==
    \E key \in ZKeys :
        \/ \E val \in ZScores : CallZset(ZName, key, val)
        \/ \E step \in ZSteps : CallZincr(ZName, key, step)
        \/ CallZdel(ZName, key)
        \/ CallZget(ZName, key)

SpecZ == Init /\ [][NextZ]_vars

\* The order-index keys of the store that are entries of (name, key).
OrderEntries(s, name, key) ==
    LET plen == Len(ZetKeyKeyPrefix(name))
    IN  {k \in DOMAIN s :
            /\ Len(k) = plen + scoreByteLen + 1 + Len(key)
            /\ k = ZetKeyKey(name, Slice(k, plen, plen + scoreByteLen), key)}

\* Sorted-set consistency of (name, key): one order-index entry, at the
\* direct index's score, when the direct index holds the key; else none.
Consistent(s, name, key) ==
    IF Has(s, ZetScoreKey(name, key))
    THEN OrderEntries(s, name, key) = {ZetKeyKey(name, s[ZetScoreKey(name, key)], key)}
    ELSE OrderEntries(s, name, key) = {}

\* C1: after every call of a sequence of Zset, Zincr and Zdel calls, the order
\* index holds exactly one entry (name, s, member) when the direct index holds
\* (name, member) with score s, and none when it does not.
C1_OrderIndexFollowsDirectIndex ==
    \A key \in ZKeys : Consistent(store, ZName, key)

\* The score the most recent successful Zset, Zincr or Zdel left for (name, key).
LastScore(name, key) ==
    IF <<name, key>> \in DOMAIN zlast THEN zlast[<<name, key>>] ELSE Zero64

\* C4: Zget returns the score passed to the most recent successful Zset or
\* returned by the most recent successful Zincr, and 0 when the member was
\* never set or was last removed by Zdel.
C4_ZgetReturnsLastScore ==
    last.op = "Zget" => last.num = LastScore(last.name, last.key)

\* C4 witness: Zget returns 6, a score that only Zset 5 followed by Zincr 1 produces.
C4_Witness ==
    /\ last.op = "Zget"
    /\ last.num = U16(6)
    /\ nincr = 1

(***************************************************************************)
(* SpecZm: Zmset among Zset and Zdel on the members of one sorted set.     *)
(***************************************************************************)
\* Every kvs list of at most n elements: a key, a score, a key, a score, ...
RECURSIVE KvsUpTo(_, _, _)
KvsUpTo(K, V, n) ==
    IF n = 0 THEN {<<>>}
    ELSE LET shorter == KvsUpTo(K, V, n - 1)
         IN  shorter \cup {Append(q, x) : q \in {r \in shorter : Len(r) = n - 1},
                                           x \in (IF n % 2 = 1 THEN K ELSE V)}

ZmScores == {U16(5), U16(7)}
ZmKvs == KvsUpTo(ZKeys, {Uint64ToBytes(v) : v \in ZmScores}, 2 * MaxPairs)

NextZm ==
    \/ \E key \in ZKeys, val \in ZmScores : CallZset(ZName, key, val)
    \/ \E key \in ZKeys : CallZdel(ZName, key)
    \/ \E kvs \in ZmKvs : CallZmset(ZName, kvs)

SpecZm == Init /\ [][NextZm]_vars

HasPrefix(k, p) == Len(k) >= Len(p) /\ SubSeq(k, 1, Len(p)) = p

\* The order index of name, and the order index its direct index predicts.
OrderIndex(s, name) == {k \in DOMAIN s : HasPrefix(k, ZetKeyKeyPrefix(name))}
DirectIndex(s, name) == {k \in DOMAIN s : HasPrefix(k, ZetScoreKeyPrefix(name))}
PredictedOrderIndex(s, name) ==
    {ZetKeyKey(name, s[k], SliceFrom(k, Len(ZetScoreKeyPrefix(name)))) : k \in DirectIndex(s, name)}

\* Sorted-set consistency of a whole set.
ConsistentSet(s, name) == OrderIndex(s, name) = PredictedOrderIndex(s, name)

\* C2: from a state where the consistency invariant holds, a successful Zmset
\* with an even-length non-empty list (members may repeat) leaves every member
\* of the direct index with exactly one order-index entry, at its score, and
\* no other order-index entry.
C2_ZmsetKeepsConsistency ==
    [][(/\ ConsistentSet(store, ZName)
        /\ last'.op = "Zmset"
        /\ last'.err = "")
       => ConsistentSet(store', ZName)]_vars

(***************************************************************************)
(* SpecH: the hashmap's point operations on two buckets.                   *)
(***************************************************************************)
HName == <<104>>
HOther == <<104, 104>>
HKeys == {<<107>>, <<>>}
HPairs == {<<HName, <<107>>>>, <<HName, <<>>>>, <<HOther, <<107>>>>}
HVals == {<<118>>, <<119>>}
HSteps == {U16(1), MinusOne}
HKvs == KvsUpTo(HKeys, HVals, 2 * MaxPairs)
HKeyLists == SeqsUpTo(HKeys, MaxPairs)

NextH ==
    \/ \E pr \in HPairs, val \in HVals : CallHset(pr[1], pr[2], val)
    \/ \E pr \in HPairs : CallHget(pr[1], pr[2])
    \/ \E kvs \in HKvs : CallHmset(HName, kvs)
    \/ \E key \in HKeys, step \in HSteps : CallHincr(HName, key, step)
    \/ \E pr \in HPairs : CallHdel(pr[1], pr[2])
    \/ \E keys \in HKeyLists : CallHmdel(HName, keys)
    \/ \E name \in {HName, HOther} : CallHdelBucket(name)

SpecH == Init /\ [][NextH]_vars

\* C3: Hget(name, k) returns ok with v when the most recent mutation of
\* (name, k) is an Hset or Hmset writing v, and not_found with no data when
\* (name, k) was never written or was last removed by Hdel, Hmdel or HdelBucket.
C3_HgetReturnsLastWrite ==
    last.op = "Hget" =>
        IF <<last.name, last.key>> \in DOMAIN hlast
        THEN hlast[<<last.name, last.key>>].kind = "set" =>
                /\ last.State = replyOK
                /\ last.Data = <<hlast[<<last.name, last.key>>].val>>
        ELSE /\ last.State = replyNotFound
             /\ last.Data = <<>>

\* C3 witness: Hget finds the value written last while the other key of its
\* bucket, written as well, has been removed again.
C3_Witness ==
    /\ last.op = "Hget"
    /\ last.State = replyOK
    /\ last.Data = <<<<119>>>>
    /\ last.key = <<>>
    /\ Cardinality(DOMAIN store) = 1
    /\ nincr > 0

(***************************************************************************)
(* SpecMut: the increments and the multi-sets of both engines on one       *)
(* counter each, seeded by Hset and Zset.                                  *)
(***************************************************************************)
CName == <<99>>
CKey == <<110>>
CSeeds == {MaxMinusOne, U16(5)}
CSteps == {U16(5), U16(2), MinusOne, MinusTwo, Zero64, MinInt64, MaxInt64}
CHashKvs == KvsUpTo({CKey}, {<<118>>}, 2 * MaxPairs)
CZetKvs == KvsUpTo({CKey}, {Uint64ToBytes(U16(5))}, 2 * MaxPairs)

NextMut ==
    \/ \E val \in CSeeds : CallHset(CName, CKey, Uint64ToBytes(val))
    \/ \E val \in CSeeds : CallZset(CName, CKey, val)
    \/ \E step \in CSteps : CallHincr(CName, CKey, step)
    \/ \E step \in CSteps : CallZincr(CName, CKey, step)
    \/ \E kvs \in CHashKvs : CallHmset(CName, kvs)
    \/ \E kvs \in CZetKvs : CallZmset(CName, kvs)

SpecMut == Init /\ [][NextMut]_vars

\* The counter an increment call finds: HgetInt for Hincr, Zget for Zincr
\* (0 when the member is absent).
CurrentValue(s, call) ==
    IF call.op = "Hincr" THEN HgetInt(s, call.name, call.key) ELSE Zget(s, call.name, call.key)

\* 0 <= c + step <= 2^64-1, for c a uint64 and step an int64: adding the
\* step's bit pattern carries out of 64 bits exactly when the step is negative.
SumInRange(c, step) == U64AddC(c, step, 0).carry = (IF step[1] >= 32768 THEN 1 ELSE 0)

\* C5: Hincr and Zincr with current value c and step s succeed, return c+s and
\* store c+s exactly when 0 <= c+s <= 2^64-1, and fail with the overflow error
\* otherwise; 0 with -1 fails, 2^64-2 with 2 fails, 5 then -2 gives 5 then 3.
C5_IncrementNeverWraps ==
    [][last'.op \in {"Hincr", "Zincr"} =>
        LET c == CurrentValue(store, last')
            s == last'.step
        IN  /\ IF SumInRange(c, s)
               THEN /\ last'.err = ""
                    /\ last'.num = U64Add(c, s)
                    /\ CurrentValue(store', last') = U64Add(c, s)
               ELSE last'.err = errOverflow
            /\ (c = Zero64 /\ s = MinusOne) => last'.err = errOverflow
            /\ (c = MaxMinusOne /\ s = U16(2)) => last'.err = errOverflow
            /\ (c = Zero64 /\ s = U16(5)) => (last'.err = "" /\ last'.num = U16(5))
            /\ (c = U16(5) /\ s = MinusTwo) => (last'.err = "" /\ last'.num = U16(3))
            /\ (c = MaxMinusOne /\ s = MinusTwo) =>
                   (last'.err = "" /\ last'.num = <<65535, 65535, 65535, 65532>>)]_vars

\* C5 witness: the second of two increments of an absent counter, 5 then -2,
\* has returned 3 and stored it.
C5_Witness ==
    /\ last.op = "Hincr"
    /\ last.step = MinusTwo
    /\ last.err = ""
    /\ last.num = U16(3)
    /\ HgetInt(store, CName, CKey) = U16(3)
    /\ nincr = 2

\* C6: an Hmset or Zmset given an empty or odd-length list, and an Hincr or
\* Zincr that fails with the overflow error, leave the whole store as it was.
C6_FailedCallsChangeNothing ==
    [][(\/ /\ last'.op \in {"Hmset", "Zmset"}
           /\ (Len(last'.kvs) = 0 \/ Len(last'.kvs) % 2 = 1)
        \/ /\ last'.op \in {"Hincr", "Zincr"}
           /\ last'.err = errOverflow)
       => store' = store]_vars

\* C6 witness: a Zmset of three elements was rejected on a store that holds
\* both a hashmap entry and a sorted-set member.
C6_Witness ==
    /\ last.op = "Zmset"
    /\ Len(last.kvs) = 3
    /\ last.err = errKvsLen
    /\ Has(store, HashKey(CName, CKey))
    /\ Has(store, ZetScoreKey(CName, CKey))

(***************************************************************************)
(* SpecHscan: the hashmap's scans over every content of one bucket, beside *)
(* an entry of another bucket.                                             *)
(***************************************************************************)
SKeys == {<<>>, <<97>>, <<97, 98>>, <<98>>}
SStartKeys == SKeys \cup {<<97, 97>>}
SVals == {<<118>>, <<119>>}
Limits == 1..MaxLimit

NextHscan ==
    \/ \E key \in SKeys, val \in SVals : CallHset(HName, key, val)
    \/ CallHset(HOther, <<97>>, <<119>>)
    \/ \E key \in SKeys : CallHdel(HName, key)
    \/ \E keyStart \in SStartKeys, limit \in Limits : CallHscan(HName, keyStart, limit)
    \/ \E prefix \in SStartKeys, limit \in Limits : CallHprefix(HName, prefix, limit)
    \/ \E keyStart \in SStartKeys, limit \in Limits : CallHrscan(HName, keyStart, limit)

SpecHscan == Init /\ [][NextHscan]_vars

\* The members of bucket name.
BucketMembers(s, name) ==
    {SliceFrom(k, Len(HashKeyPrefix(name))) : k \in {x \in DOMAIN s : HasPrefix(x, HashKeyPrefix(name))}}

\* The i-th pair of a reply's flat Data.
PairKey(data, i) == data[2 * i - 1]
PairVal(data, i) == data[2 * i]
PairCount(data) == Len(data) \div 2

Min2(a, b) == IF a < b THEN a ELSE b

\* C8: for every bucket content, startKey and limit >= 1, Hscan never returns
\* startKey, returns only members strictly greater than startKey, in strictly
\* ascending order with their stored values, and returns the first
\* min(limit, q) of the q such members without skipping any.
C8_HscanExclusiveAscending ==
    (last.op = "Hscan" /\ last.limit >= 1) =>
        LET greater == {m \in BucketMembers(store, last.name) : BytesCompare(m, last.key) = 1}
            n == PairCount(last.Data)
            returned == {PairKey(last.Data, i) : i \in 1..n}
        IN  /\ Len(last.Data) = 2 * Min2(last.limit, Cardinality(greater))
            /\ \A i \in 1..n :
                  /\ PairKey(last.Data, i) # last.key
                  /\ PairKey(last.Data, i) \in greater
                  /\ PairVal(last.Data, i) = store[HashKey(last.name, PairKey(last.Data, i))]
            /\ \A i \in 1..(n - 1) :
                  BytesCompare(PairKey(last.Data, i), PairKey(last.Data, i + 1)) = -1
            /\ \A m \in greater \ returned : \A r \in returned : BytesCompare(r, m) = -1

\* C8 witness: with a, ab and b stored, Hscan from a with limit 1 returns ab alone.
C8_Witness ==
    /\ last.op = "Hscan"
    /\ last.key = <<97>>
    /\ last.limit = 1
    /\ {<<97>>, <<97, 98>>, <<98>>} \subseteq BucketMembers(store, HName)
    /\ PairCount(last.Data) = 1
    /\ PairKey(last.Data, 1) = <<97, 98>>

(***************************************************************************)
(* SpecZscan: the sorted set's scans over every content of one set.  Zincr *)
(* with step 0 also brings the stores whose order index has lost an entry. *)
(***************************************************************************)
ZsKeys == {<<>>, <<97>>, <<98>>}
ZsScores == {Zero64, U16(50), U16(256)}
ZsStartScores == {<<>>} \cup {Uint64ToBytes(v) : v \in ZsScores}

NextZscan ==
    \/ \E key \in ZsKeys, val \in ZsScores : CallZset(ZName, key, val)
    \/ \E key \in ZsKeys : CallZdel(ZName, key)
    \/ CallZincr(ZName, <<97>>, Zero64)
    \/ \E keyStart \in ZsKeys, scoreStart \in ZsStartScores, limit \in Limits :
          CallZscan(ZName, keyStart, scoreStart, limit)

SpecZscan == Init /\ [][NextZscan]_vars

\* The (score, member) pairs of the order index of name.
OrderPairs(s, name) ==
    LET plen == Len(ZetKeyKeyPrefix(name))
    IN  {<<BytesToUint64(Slice(k, plen, plen + scoreByteLen)), SliceFrom(k, plen + scoreByteLen + 1)>> :
            k \in OrderIndex(s, name)}

\* (score, member) order: by numeric score, then by member bytes.
PairLess(p, q) == U64Less(p[1], q[1]) \/ (p[1] = q[1] /\ BytesCompare(p[2], q[2]) = -1)

RECURSIVE SortedPairs(_)
SortedPairs(S) ==
    IF S = {} THEN <<>>
    ELSE LET m == CHOOSE p \in S : \A q \in S : p = q \/ PairLess(p, q)
         IN  <<m>> \o SortedPairs(S \ {m})

RECURSIVE ZetReplyData(_)
\* The flat Data of a zset scan that returns the pairs of a sequence.
ZetReplyData(pairs) ==
    IF Len(pairs) = 0 THEN <<>>
    ELSE <<Head(pairs)[2], Uint64ToBytes(Head(pairs)[1])>> \o ZetReplyData(Tail(pairs))

\* The score a Zscan call starts from: 0 when scoreStart is omitted.
StartScore(call) == IF Len(call.scoreStart) = 0 THEN Zero64 ELSE BytesToUint64(call.scoreStart)

FirstUpTo(q, limit) == SubSeq(q, 1, Min2(limit, Len(q)))

\* C7: Zscan with an empty startKey returns, in ascending (score, member)
\* order, the first up-to-limit members whose score is greater than or equal
\* to startScore (0 when omitted): members at startScore are included.
C7_ZscanIncludesStartScore ==
    (last.op = "Zscan" /\ last.key = <<>> /\ last.limit >= 1) =>
        last.Data = ZetReplyData(FirstUpTo(SortedPairs(
            {p \in OrderPairs(store, last.name) : ~U64Less(p[1], StartScore(last))}), last.limit))

\* C10: Zscan with a non-empty startKey returns exactly the first up-to-limit
\* pairs with (score, member) strictly greater than (startScore, startKey),
\* ascending by numeric score and then by member bytes; the cursor pair itself
\* is never returned.
C10_ZscanResumesAfterCursor ==
    (last.op = "Zscan" /\ last.key # <<>> /\ last.limit >= 1) =>
        last.Data = ZetReplyData(FirstUpTo(SortedPairs(
            {p \in OrderPairs(store, last.name) : PairLess(<<StartScore(last), last.key>>, p)}),
            last.limit))

\* C10 witness: the cursor (50, a) is stored, with b at the same score and
\* the empty member at a higher score; the scan returns these two in that
\* order and not the cursor.
C10_Witness ==
    /\ last.op = "Zscan"
    /\ last.key = <<97>>
    /\ last.scoreStart = Uint64ToBytes(U16(50))
    /\ last.limit = 2
    /\ OrderPairs(store, ZName) = {<<U16(50), <<97>>>>, <<U16(50), <<98>>>>, <<U16(256), <<>>>>}
    /\ last.Data = <<<<98>>, Uint64ToBytes(U16(50)), <<>>, Uint64ToBytes(U16(256))>>

(***************************************************************************)
(* SpecScan: the five scans, limit 0 included, over a small bucket and a   *)
(* small sorted set.  Zmset takes a score of any length: with one of seven *)
(* bytes and the empty member it writes an order-index key shorter than    *)
(* the scans' keyBeginIndex, on which Zscan and Zrscan panic.              *)
(***************************************************************************)
ScKeys == {<<97>>, <<98>>}
ScStartKeys == {<<>>, <<97>>}
ScScores == {Zero64, U16(50)}
ScLimits == 0..MaxLimit
ScShortScore == <<1, 0, 0, 0, 0, 0, 0>>

NextScan ==
    \/ \E key \in ScKeys : CallHset(HName, key, <<118>>)
    \/ \E key \in ScKeys, val \in ScScores : CallZset(ZName, key, val)
    \/ CallZmset(ZName, <<<<>>, ScShortScore>>)
    \/ \E keyStart \in ScStartKeys, limit \in ScLimits : CallHscan(HName, keyStart, limit)
    \/ \E prefix \in ScStartKeys, limit \in ScLimits : CallHprefix(HName, prefix, limit)
    \/ \E keyStart \in ScStartKeys, limit \in ScLimits : CallHrscan(HName, keyStart, limit)
    \/ \E keyStart \in ScStartKeys, limit \in ScLimits : CallZscan(ZName, keyStart, <<>>, limit)
    \/ \E keyStart \in ScStartKeys, limit \in ScLimits : CallZrscan(ZName, keyStart, <<>>, limit)

SpecScan == Init /\ [][NextScan]_vars

\* C9: for every limit >= 0, 0 included, and every store content, each of
\* Hscan, Hprefix, Hrscan, Zscan and Zrscan returns at most limit pairs.
C9_LimitIsUpperBound ==
    (last.op \in {"Hscan", "Hprefix", "Hrscan", "Zscan", "Zrscan"} /\ last.limit >= 0) =>
        PairCount(last.Data) <= last.limit

(***************************************************************************)
(* SpecZrscan: the sorted set's reverse scan over every content of a set   *)
(* of two members, the maximum score among the scores.                     *)
(***************************************************************************)
ZrKeys == {<<97>>, <<98>>}
ZrScores == {Zero64, U16(50), scoreMax}
ZrStartScores == {<<>>, Uint64ToBytes(U16(50)), Uint64ToBytes(scoreMax)}

NextZrscan ==
    \/ \E key \in ZrKeys, val \in ZrScores : CallZset(ZName, key, val)
    \/ \E key \in ZrKeys : CallZdel(ZName, key)
    \/ \E keyStart \in ZrKeys \cup {<<>>}, scoreStart \in ZrStartScores, limit \in Limits :
          CallZrscan(ZName, keyStart, scoreStart, limit)

SpecZrscan == Init /\ [][NextZrscan]_vars

\* C11: Zrscan with an empty startKey, an omitted startScore and a limit of at
\* least the number of members returns every (member, score) of the set in
\* descending (score, member) order, the reverse of the complete ascending
\* listing; with an empty startKey and a given startScore it returns, in that
\* order, the first up-to-limit members whose score is less than or equal to
\* startScore.
C11_ZrscanMirrorsZscan ==
    (last.op = "Zrscan" /\ last.key = <<>> /\ last.limit >= 1) =>
        LET pairs == OrderPairs(store, last.name)
        IN  /\ (last.scoreStart = <<>> /\ last.limit >= Cardinality(pairs)) =>
                  last.Data = ZetReplyData(Reverse(SortedPairs(pairs)))
            /\ last.scoreStart # <<>> =>
                  last.Data = ZetReplyData(FirstUpTo(Reverse(SortedPairs(
                      {p \in pairs : ~U64Less(BytesToUint64(last.scoreStart), p[1])})), last.limit))

(***************************************************************************)
(* The hashmap's reverse scan against its forward scan, under SpecHscan.   *)
(***************************************************************************)
\* A reply's flat Data with its pairs in the opposite order.
ReversePairs(data) ==
    LET n == PairCount(data)
    IN  [i \in 1..(2 * n) |->
            IF i % 2 = 1 THEN PairKey(data, n + 1 - (i + 1) \div 2)
            ELSE PairVal(data, n + 1 - i \div 2)]

\* C12: for every bucket content, the pairs Hscan returns from an empty
\* startKey with a limit that cuts nothing, reversed, are the pairs Hrscan
\* returns from an empty startKey with that limit.
C12_HrscanMirrorsHscan ==
    (/\ last.op = "Hrscan"
     /\ last.key = <<>>
     /\ last.limit >= Cardinality(BucketMembers(store, last.name))) =>
        last.Data = ReversePairs(Hscan(store, last.name, <<>>, last.limit).Data)

\* C13: Hprefix returns, in ascending order, pairs whose member is a member
\* of the bucket that starts with memberPrefix, given in full as it was
\* passed to Hset (memberPrefix still present), with its stored value.
C13_HprefixKeepsPrefix ==
    (last.op = "Hprefix" /\ last.limit >= 1) =>
        LET n == PairCount(last.Data)
        IN  /\ \A i \in 1..n :
                  /\ PairKey(last.Data, i) \in BucketMembers(store, last.name)
                  /\ HasPrefix(PairKey(last.Data, i), last.key)
                  /\ PairVal(last.Data, i) = store[HashKey(last.name, PairKey(last.Data, i))]
            /\ \A i \in 1..(n - 1) :
                  BytesCompare(PairKey(last.Data, i), PairKey(last.Data, i + 1)) = -1

(***************************************************************************)
(* SpecBucket: bucket deletion of a hashmap and of a sorted set, beside a  *)
(* bucket and a set of other names.  Zmset with a repeated member and Zdel *)
(* bring the order-index entries that have no direct-index entry.          *)
(***************************************************************************)
ZOther == <<122, 122>>
BKeys == {<<>>, <<97>>}

NextBucket ==
    \/ \E key \in BKeys : CallHset(HName, key, <<118>>)
    \/ CallHset(HOther, <<97>>, <<119>>)
    \/ \E key \in BKeys, val \in ZmScores : CallZset(ZName, key, val)
    \/ CallZset(ZOther, <<97>>, U16(5))
    \/ \E kvs \in KvsUpTo({<<97>>}, {Uint64ToBytes(v) : v \in ZmScores}, 2 * MaxPairs) :
          CallZmset(ZName, kvs)
    \/ \E key \in BKeys : CallZdel(ZName, key)
    \/ CallHdelBucket(HName)
    \/ CallZdelBucket(ZName)

SpecBucket == Init /\ [][NextBucket]_vars

\* C14: after HdelBucket(name), Hscan from an empty startKey returns no pair
\* for every limit and Hget reports not found for every member; after
\* ZdelBucket(name), neither index holds an entry for name, ZhasKey is false
\* for every member and Zscan and Zrscan return no pair, whatever order-index
\* entries without a direct-index entry there were.
C14_BucketDeletionEmpties ==
    /\ last.op = "HdelBucket" =>
          /\ \A k \in DOMAIN store : ~HasPrefix(k, HashKeyPrefix(last.name))
          /\ \A n \in 0..MaxLimit : Hscan(store, last.name, <<>>, n).Data = <<>>
          /\ \A m \in BKeys \cup {<<98>>} : Hget(store, last.name, m).State = replyNotFound
    /\ last.op = "ZdelBucket" =>
          /\ DirectIndex(store, last.name) = {}
          /\ OrderIndex(store, last.name) = {}
          /\ \A m \in BKeys \cup {<<98>>} : ~ZhasKey(store, last.name, m)
          /\ \A n \in 0..MaxLimit :
                /\ Zscan(store, last.name, <<>>, <<>>, n).Data = <<>>
                /\ Zrscan(store, last.name, <<>>, <<>>, n).Data = <<>>

\* C14 witness: ZdelBucket has deleted an order-index entry of member a at
\* score 5 while no direct-index entry of a was there to delete, and the
\* other set and the hashmap bucket are still stored.
C14_Witness ==
    /\ last.op = "ZdelBucket"
    /\ \E i \in 1..Len(last.Data) : last.Data[i] = ZetKeyKey(ZName, Uint64ToBytes(U16(5)), <<97>>)
    /\ \A i \in 1..Len(last.Data) : last.Data[i] # ZetScoreKey(ZName, <<97>>)
    /\ Has(store, ZetScoreKey(ZOther, <<97>>))
    /\ Has(store, HashKey(HName, <<97>>))

(***************************************************************************)
(* Zdel alone, under SpecZ.                                                *)
(***************************************************************************)
\* C15: a Zdel of a member without a direct-index entry returns an error and
\* leaves the store unchanged; a Zdel of a member with one succeeds, and
\* afterwards neither its direct-index entry nor the order-index entry at its
\* former score exists, every other key being as before.
C15_ZdelRemovesBothOrNothing ==
    [][last'.op = "Zdel" =>
          LET keyScore == ZetScoreKey(last'.name, last'.key)
          IN  IF ~Has(store, keyScore)
              THEN last'.err # "" /\ store' = store
              ELSE LET keyOrder == ZetKeyKey(last'.name, store[keyScore], last'.key)
                   IN  /\ last'.err = ""
                       /\ ~Has(store', keyScore)
                       /\ ~Has(store', keyOrder)
                       /\ DOMAIN store' = DOMAIN store \ {keyScore, keyOrder}
                       /\ \A k \in DOMAIN store' : store'[k] = store[k]]_vars

\* C15 witness: a Zdel has succeeded on a member, whose two entries are gone,
\* while the other member keeps its score and its order-index entry.
C15_Witness ==
    /\ last.op = "Zdel"
    /\ last.err = ""
    /\ last.key = <<109>>
    /\ ~Has(store, ZetScoreKey(ZName, <<109>>))
    /\ OrderEntries(store, ZName, <<109>>) = {}
    /\ Has(store, ZetScoreKey(ZName, <<>>))
    /\ OrderEntries(store, ZName, <<>>) # {}

(***************************************************************************)
(* SpecZrace: two callers, each making one Zset or Zincr call on the same  *)
(* member of a set that a single caller has filled before.                 *)
(***************************************************************************)
RKey == <<109>>
RScores == {U16(5), U16(7), U16(9)}
RSteps == {Zero64, U16(2), U16(4), MinusTwo}

NextZrace ==
    \/ AllIdle /\ \E val \in RScores : CallZset(ZName, RKey, val)
    \/ \E p \in Procs, val \in RScores : BeginZset(p, ZName, RKey, val)
    \/ \E p \in Procs, step \in RSteps : BeginZincr(p, ZName, RKey, step)
    \/ \E p \in Procs : CommitWrite(p)

SpecZrace == Init /\ [][NextZrace]_vars

\* Both callers have written, each having read before the other wrote, and
\* the two scores written differ from each other and from the scores read.
Raced ==
    /\ Written = Procs
    /\ \A p \in Procs :
          /\ procs[p].after = {}
          /\ ~BytesEqual(procs[p].read, Uint64ToBytes(procs[p].num))
    /\ procs[1].num # procs[2].num

\* C16: when two Zset or Zincr calls on one member both read the old score
\* before either writes its batch, and write different new scores, then after
\* both batches the direct index holds the score of the batch written last
\* while the order index holds two entries for the member, one per batch.
C16_RacingWritersLeaveTwoEntries ==
    Raced =>
        /\ last.num \in {procs[p].num : p \in Procs}
        /\ Get(store, ZetScoreKey(ZName, RKey)).val = Uint64ToBytes(last.num)
        /\ OrderEntries(store, ZName, RKey) =
              {ZetKeyKey(ZName, Uint64ToBytes(procs[p].num), RKey) : p \in Procs}
        /\ Cardinality(OrderEntries(store, ZName, RKey)) = 2

\* C16 witness: from score 5, Zset 7 and Zset 9 both read 5; 9 is written
\* last and the order index holds the entries at 7 and at 9.
C16_Witness ==
    /\ Raced
    /\ \A p \in Procs : procs[p].op = "Zset" /\ procs[p].read = Uint64ToBytes(U16(5))
    /\ last.num = U16(9)
    /\ Get(store, ZetScoreKey(ZName, RKey)).val = Uint64ToBytes(U16(9))
    /\ OrderEntries(store, ZName, RKey) =
          {ZetKeyKey(ZName, Uint64ToBytes(U16(7)), RKey), ZetKeyKey(ZName, Uint64ToBytes(U16(9)), RKey)}

(***************************************************************************)
(* SpecHrace: two callers, each making one Hincr call on the same member,  *)
(* whose value a single caller has stored before.                          *)
(***************************************************************************)
HrSeeds == {U16(5), MaxMinusOne}
HrSteps == {U16(1), U16(2), MinusOne}

NextHrace ==
    \/ AllIdle /\ \E v \in HrSeeds : CallHset(HName, RKey, Uint64ToBytes(v))
    \/ \E p \in Procs, step \in HrSteps : BeginHincr(p, HName, RKey, step)
    \/ \E p \in Procs : CommitWrite(p)

SpecHrace == Init /\ [][NextHrace]_vars

\* The value stored when the callers began: what Hset last stored, else 0.
SeedValue ==
    IF <<HName, RKey>> \in DOMAIN hlast THEN BytesToUint64(hlast[<<HName, RKey>>].val) ELSE Zero64

\* C17: when two Hincr calls on one member with steps a and b have both
\* returned, starting from value v with v+a, v+b and v+a+b in range, both have
\* succeeded and the stored value is v+a+b, whatever the interleaving of their
\* reads and writes.
C17_HincrIsAtomic ==
    (/\ \A p \in Procs : procs[p].pc = "done" /\ procs[p].op = "Hincr"
     /\ SumInRange(SeedValue, procs[1].step)
     /\ SumInRange(SeedValue, procs[2].step)
     /\ SumInRange(U64Add(SeedValue, procs[1].step), procs[2].step)) =>
        /\ \A p \in Procs : procs[p].err = ""
        /\ HgetInt(store, HName, RKey) = U64Add(U64Add(SeedValue, procs[1].step), procs[2].step)

(***************************************************************************)
(* SpecHdelRace: one caller deleting a bucket while another caller's Hset  *)
(* calls, each a single db.Put, run before, during and after it.           *)
(***************************************************************************)
HdKeys == {<<97>>, <<98>>}

NextHdelRace ==
    \/ \E key \in HdKeys, val \in SVals : CallHset(HName, key, val)
    \/ BeginHdelBucket(1, HName)
    \/ CommitWrite(1)

SpecHdelRace == Init /\ [][NextHdelRace]_vars

\* C18: when HdelBucket has written its batch, a member the iterator saw is
\* deleted even if Hset overwrote it after the iteration, and a member the
\* iterator did not see, stored by an Hset after the iteration and before the
\* batch, is still in the bucket with the value stored.
C18_HdelBucketDeletesWhatItIterated ==
    last.op = "HdelBucket" =>
        \A m \in HdKeys :
            LET k == HashKey(HName, m)
            IN  IF k \in DOMAIN procs[1].read
                THEN ~Has(store, k)
                ELSE IF <<HName, m>> \in DOMAIN hlast
                     THEN Has(store, k) /\ store[k] = hlast[<<HName, m>>].val
                     ELSE ~Has(store, k)

\* C18 witness: the iterator saw a with value v only; before the batch was
\* written, a was overwritten with w and b was stored; after the deletion a is
\* gone and b is in the bucket.
C18_Witness ==
    /\ last.op = "HdelBucket"
    /\ procs[1].pc = "done"
    /\ DOMAIN procs[1].read = {HashKey(HName, <<97>>)}
    /\ procs[1].read[HashKey(HName, <<97>>)] = <<118>>
    /\ hlast[<<HName, <<97>>>>].val = <<119>>
    /\ ~Has(store, HashKey(HName, <<97>>))
    /\ Has(store, HashKey(HName, <<98>>))
    /\ store[HashKey(HName, <<98>>)] = <<118>>

(***************************************************************************)
(* The start boundary of the hashmap's reverse scan, under SpecHscan.      *)
(***************************************************************************)
\* C19: for every non-empty startKey and limit >= 1, Hrscan returns only
\* members strictly less than startKey, in strictly descending order with
\* their stored values, the first min(limit, q) of the q such members, and
\* never startKey itself, stored or not.
C19_HrscanExclusiveDescending ==
    (last.op = "Hrscan" /\ last.key # <<>> /\ last.limit >= 1) =>
        LET less == {m \in BucketMembers(store, last.name) : BytesCompare(m, last.key) = -1}
            n == PairCount(last.Data)
            returned == {PairKey(last.Data, i) : i \in 1..n}
        IN  /\ Len(last.Data) = 2 * Min2(last.limit, Cardinality(less))
            /\ \A i \in 1..n :
                  /\ PairKey(last.Data, i) # last.key
                  /\ PairKey(last.Data, i) \in less
                  /\ PairVal(last.Data, i) = store[HashKey(last.name, PairKey(last.Data, i))]
            /\ \A i \in 1..(n - 1) :
                  BytesCompare(PairKey(last.Data, i), PairKey(last.Data, i + 1)) = 1
            /\ \A m \in less \ returned : \A r \in returned : BytesCompare(r, m) = 1

\* C19 witness: with a, ab and b stored, Hrscan from the stored member ab with
\* limit 1 returns a alone.
C19_Witness ==
    /\ last.op = "Hrscan"
    /\ last.key = <<97, 98>>
    /\ last.limit = 1
    /\ {<<97>>, <<97, 98>>, <<98>>} \subseteq BucketMembers(store, HName)
    /\ PairCount(last.Data) = 1
    /\ PairKey(last.Data, 1) = <<97>>

(***************************************************************************)
(* Zmset against a sequence of Zset calls, under SpecZm.                   *)
(***************************************************************************)
RECURSIVE ZsetEach(_, _, _, _)
\* The store after Zset(name, kvs[i], kvs[i+1]) for each pair from index i on
\* (0-based), in list order.
ZsetEach(s, name, kvs, i) ==
    IF i >= Len(kvs) - 1 THEN s
    ELSE ZsetEach(ZsetStore(s, name, kvs[i + 1], BytesToUint64(kvs[i + 2])), name, kvs, i + 2)

\* C20: for every store and every even-length non-empty list of (member,
\* score) pairs, the store after Zmset is the store after Zset of each pair in
\* list order; a member that occurs more than once ends with the score of its
\* last pair.
C20_ZmsetIsSequentialZset ==
    [][(last'.op = "Zmset" /\ Len(last'.kvs) > 0 /\ Len(last'.kvs) % 2 = 0) =>
          /\ last'.err = ""
          /\ store' = ZsetEach(store, last'.name, last'.kvs, 0)]_vars

(***************************************************************************)
(* SpecPaging: one caller paging through a bucket that changes only while  *)
(* no paging is under way.                                                 *)
(***************************************************************************)
NextPaging ==
    \/ AllIdle /\ \E key \in SKeys : CallHset(HName, key, <<118>>)
    \/ AllIdle /\ CallHset(HOther, <<97>>, <<119>>)
    \/ AllIdle /\ \E key \in SKeys : CallHdel(HName, key)
    \/ \E limit \in Limits : BeginPaging(1, HName, limit)
    \/ NextPage(1)
    \/ Return(1)

SpecPaging == Init /\ [][NextPaging]_vars

\* C21: on an unchanging bucket and for every page size >= 1, the pages of
\* Hscan from the empty startKey, each next call starting from the last member
\* of the previous page until a call returns no pair, hold together every
\* member of the bucket exactly once, in ascending order.
C21_HscanPagingIsComplete ==
    (procs[1].pc = "done" /\ procs[1].op = "Hscan") =>
        procs[1].read = Ascending(BucketMembers(store, procs[1].name))

(***************************************************************************)
(* SpecIso: every mutation on the bucket and the set named h, beside a     *)
(* bucket and a set named hh whose member key holds the separator byte,    *)
(* and every scan and bucket deletion on both names.                       *)
(***************************************************************************)
INames == {<<104>>, <<104, 104>>}
IKey == <<97>>
IOtherKey == <<28, 104>>
IScore == Uint64ToBytes(U16(5))

NextIso ==
    \/ CallHset(HName, IKey, <<118>>)
    \/ CallHset(HOther, IOtherKey, <<118>>)
    \/ CallHmset(HName, <<IKey, <<119>>>>)
    \/ CallHincr(HName, IKey, U16(1))
    \/ CallHdel(HName, IKey)
    \/ CallHmdel(HName, <<IKey>>)
    \/ \E n \in INames : CallHdelBucket(n)
    \/ CallZset(HName, IKey, U16(5))
    \/ CallZset(HOther, IOtherKey, U16(5))
    \/ CallZmset(HName, <<IKey, IScore, IKey, Uint64ToBytes(U16(7))>>)
    \/ CallZincr(HName, IKey, U16(2))
    \/ CallZdel(HName, IKey)
    \/ CallZmdel(HName, <<IKey>>)
    \/ \E n \in INames : CallZdelBucket(n)
    \/ \E n \in INames : CallHscan(n, <<>>, MaxLimit)
    \/ \E n \in INames : CallHprefix(n, <<>>, MaxLimit)
    \/ \E n \in INames : CallHrscan(n, <<>>, MaxLimit)
    \/ \E n \in INames : CallZscan(n, <<>>, <<>>, MaxLimit)
    \/ \E n \in INames : CallZrscan(n, <<>>, <<>>, MaxLimit)

SpecIso == Init /\ [][NextIso]_vars

RECURSIVE FirstSeparator(_, _)
\* The index of the first separator byte of k from index i on; Len(k) + 1
\* when there is none.
FirstSeparator(k, i) ==
    IF i > Len(k) THEN i
    ELSE IF k[i] = splitChar[1] THEN i ELSE FirstSeparator(k, i + 1)

\* The name a stored key belongs to: the bytes between its tag and its first
\* separator.
NameOf(k) == SubSeq(k, 2, FirstSeparator(k, 2) - 1)

\* Key k is an entry, under one of the tags, of the structure named n.
EntryOf(k, tags, n) == Len(k) > 0 /\ k[1] \in tags /\ NameOf(k) = n

\* Every key that is no entry of (tags, n) is the same before and after.
OthersUnchanged(s, t, tags, n) ==
    \A k \in DOMAIN s \cup DOMAIN t :
        ~EntryOf(k, tags, n) => (k \in DOMAIN s /\ k \in DOMAIN t /\ s[k] = t[k])

\* The store without the entries of every other structure.
OnlyOf(s, tags, n) == [k \in {x \in DOMAIN s : EntryOf(x, tags, n)} |-> s[k]]

HashTags == {hashPrefix[1]}
ZetTags == {zetScorePrefix[1], zetKeyPrefix[1]}

\* C22: for names without the separator byte, a hashmap mutation on bucket n
\* leaves every sorted-set entry and every entry of another bucket unchanged;
\* a sorted-set mutation on set n leaves every hashmap entry and both indices
\* of every other set unchanged; a scan of one structure returns what it
\* returns when no entry of another structure is stored.
C22_NamespaceIsolation ==
    [][LET c == last'
       IN  /\ c.op \in {"Hset", "Hmset", "Hincr", "Hdel", "Hmdel", "HdelBucket"} =>
                 OthersUnchanged(store, store', HashTags, c.name)
           /\ c.op \in {"Zset", "Zmset", "Zincr", "Zdel", "Zmdel", "ZdelBucket"} =>
                 OthersUnchanged(store, store', ZetTags, c.name)
           /\ c.op = "Hscan" =>
                 c.Data = Hscan(OnlyOf(store', HashTags, c.name), c.name, c.key, c.limit).Data
           /\ c.op = "Hprefix" =>
                 c.Data = Hprefix(OnlyOf(store', HashTags, c.name), c.name, c.key, c.limit).Data
           /\ c.op = "Hrscan" =>
                 c.Data = Hrscan(OnlyOf(store', HashTags, c.name), c.name, c.key, c.limit).Data
           /\ c.op = "Zscan" =>
                 c.Data = Zscan(OnlyOf(store', ZetTags, c.name), c.name, c.key, c.scoreStart,
                                c.limit).Data
           /\ c.op = "Zrscan" =>
                 c.Data = Zrscan(OnlyOf(store', ZetTags, c.name), c.name, c.key, c.scoreStart,
                                 c.limit).Data]_vars

\* C22 witness: ZdelBucket has deleted the entries of the set named h, while
\* the set named hh and the buckets named h and hh keep theirs.
C22_Witness ==
    /\ last.op = "ZdelBucket"
    /\ last.name = HName
    /\ Len(last.Data) >= 2
    /\ \A k \in DOMAIN store : ~EntryOf(k, ZetTags, HName)
    /\ Has(store, ZetScoreKey(HOther, IOtherKey))
    /\ Has(store, ZetKeyKey(HOther, IScore, IOtherKey))
    /\ Has(store, HashKey(HName, IKey))
    /\ Has(store, HashKey(HOther, IOtherKey))

=============================================================================
